---- MODULE Spec2Model ----
(***************************************************************************)
(* The v2.1 -> v3.0 porting tools of examples/port_datasets:               *)
(*   validate_v21_conversion.py  main(), compare_values()                  *)
(*   port_v21_shards.py          PortV21Shards.run()                       *)
(*   aggregate_v21_shards.py     main(), AggregateV21Shards.run()          *)
(***************************************************************************)
EXTENDS Integers, Sequences, FiniteSets, TLC

\* Longest frame sequence a dataset holds.
MaxFrames == 2

(***************************************************************************)
(* Values, frames, dataset metadata                                        *)
(***************************************************************************)
\* A frame value: a 1-D torch.Tensor (data = its elements, shape = Len) or
\* a Python float (data = <<x>>).
Tensor(s) == [kind |-> "tensor", data |-> s]
Float(x) == [kind |-> "float", data |-> <<x>>]

Abs(x) == IF x < 0 THEN -x ELSE x

\* torch.allclose(left, right, rtol, atol) on equal shapes:
\* |left - right| <= atol + rtol * |right| for every element.
\* rtol is the rational rtol[1] / rtol[2].
allclose(left, right, rtol, atol) ==
    \A j \in 1..Len(left) :
        Abs(left[j] - right[j]) * rtol[2] <= atol * rtol[2] + rtol[1] * Abs(right[j])

\* Tensor.item() raises unless the tensor has exactly one element.
item_raises(left, right) ==
    \/ left.kind = "float" /\ right.kind = "tensor" /\ Len(right.data) # 1
    \/ left.kind = "tensor" /\ right.kind = "float" /\ Len(left.data) # 1

compare_values(left, right, rtol, atol) ==
    IF left.kind = "tensor" /\ right.kind = "tensor"
    THEN Len(left.data) = Len(right.data) /\ allclose(left.data, right.data, rtol, atol)
    ELSE IF left.kind = "float" /\ right.kind = "tensor"
    THEN left.data[1] = right.data[1]
    ELSE IF left.kind = "tensor" /\ right.kind = "float"
    THEN left.data[1] = right.data[1]
    ELSE left = right

INTERNAL_KEYS == {"timestamp", "episode_index", "index", "frame_index", "task_index"}

\* The order in which a frame dict yields its keys.
KeyOrder == <<"state", "cam">>

\* Frames: functions from feature key to value.
FrameRef == [state |-> Tensor(<<3>>), cam |-> Tensor(<<3>>)]
FrameState5 == [state |-> Tensor(<<5>>), cam |-> Tensor(<<3>>)]
FrameCam5 == [state |-> Tensor(<<3>>), cam |-> Tensor(<<5>>)]
FrameNoCam == [state |-> Float(3)]
SrcFrameSet == {FrameRef, FrameState5}
TgtFrameSet == {FrameRef, FrameState5, FrameCam5, FrameNoCam}

\* ds.meta: fps, features (name -> descriptor), camera_keys.
MetaRef ==
    [fps |-> 30, camera_keys |-> {"cam"},
     features |-> [state |-> "float32", cam |-> "video", index |-> "int64"]]
SrcMetas == {MetaRef}
TgtMetas ==
    { [MetaRef EXCEPT !.features = [state |-> "float32", cam |-> "video", index |-> "int32"]],
      [MetaRef EXCEPT !.fps = 60],
      [MetaRef EXCEPT !.features = [state |-> "float32", index |-> "int64"],
                      !.camera_keys = {}],
      [MetaRef EXCEPT !.features = [state |-> "float64", cam |-> "video", index |-> "int64"]],
      [MetaRef EXCEPT !.features = [state |-> "float32", cam |-> "video", depth |-> "video"],
                      !.camera_keys = {"cam", "depth"}] }

FrameSeqs(S) == UNION { [1..n -> S] : n \in 0..MaxFrames }

\* A dataset as the validator sees it.  streaming: it was opened as a
\* StreamingLeRobotDataset (a local root was given).  A random-access
\* dataset holds num_frames frames; a stream may end before num_frames.
Datasets(Metas, S) ==
    { d \in [streaming : BOOLEAN, meta : Metas, num_frames : 0..MaxFrames,
             frames : FrameSeqs(S)] :
        /\ Len(d.frames) <= d.num_frames
        /\ ~d.streaming => d.num_frames = Len(d.frames) }

\* --max-frames (<< >> is None), --check-images, --rtol, --atol.
ArgSet ==
    [max_frames : {<< >>} \cup { <<m>> : m \in 0..MaxFrames },
     check_images : BOOLEAN,
     tol : { [rtol |-> <<0, 1>>, atol |-> 0],
             [rtol |-> <<1, 2>>, atol |-> 0],
             [rtol |-> <<0, 1>>, atol |-> 2] }]

Min(a, b) == IF a <= b THEN a ELSE b

VARIABLES
    ds_src, ds_tgt, args,   \* the two datasets and the parsed arguments
    pc,                     \* position in main()
    num, camera_keys,       \* locals of main()
    i, left, right,         \* loop locals; << >> while unbound, else <<[idx, frame]>>
    src_iter, tgt_iter,     \* frames already yielded by each iterator
    range_it,               \* values already yielded by range(num) of line 141
    status, message,        \* how main() ended, and what it reported
    reads_src, reads_tgt,   \* history: dataset indices fetched, in order
    compared,               \* history: <<source index, target index>> of every
                            \* frame pair whose keys and values were checked
    run_no, first           \* second invocation on the same datasets

vvars == <<ds_src, ds_tgt, args, pc, num, camera_keys, i, left, right, src_iter,
           tgt_iter, range_it, status, message, reads_src, reads_tgt, compared,
           run_no, first>>

VARIABLES
    repo_id, out_repo_prefix,   \* PortV21Shards fields (strings: sequences of characters)
    workers, total_episodes,    \* --workers of the port command; episodes of the source
    task,                       \* rank -> "idle" | "converting" | "done"
    call,                       \* rank -> the convert_dataset call of that rank, once made
    outputs,                    \* the shard datasets written: [out_repo_id, rank, episodes]
    base_repo_id, aggr_workers, \* --base-repo-id and --workers of the aggregate command
    aggr_pc, shard_repo_ids,    \* position of the aggregate command; its shard list
    aggregated                  \* the list handed to aggregate_datasets, once called

pvars == <<repo_id, out_repo_prefix, workers, total_episodes, task, call, outputs,
           base_repo_id, aggr_workers, aggr_pc, shard_repo_ids, aggregated>>

vars == <<vvars, pvars>>

NoMessage ==
    [what |-> "", frame |-> -1, key |-> "", keys |-> {},
     missing_left |-> {}, missing_right |-> {}, count |-> -1]

NoFirst ==
    [status |-> "", message |-> NoMessage, streaming |-> FALSE, num |-> -1, rerun |-> ""]

\* The state at entry of main() after argument parsing and dataset loading.
RunStart ==
    /\ pc = "check_fps"
    /\ num = 0 /\ camera_keys = {}
    /\ i = 0 /\ left = << >> /\ right = << >>
    /\ src_iter = 0 /\ tgt_iter = 0 /\ range_it = 0
    /\ status = "running" /\ message = NoMessage
    /\ reads_src = << >> /\ reads_tgt = << >> /\ compared = << >>

ValidatorInit ==
    /\ ds_src \in Datasets(SrcMetas, SrcFrameSet)
    /\ ds_tgt \in Datasets(TgtMetas, TgtFrameSet)
    /\ args \in ArgSet
    /\ RunStart
    /\ run_no = 1 /\ first = NoFirst

\* raise: main() ends with the exception.
Raise(exc, msg) ==
    /\ status' = exc
    /\ message' = msg
    /\ pc' = "raised"

NonInternal(features) == { k \in DOMAIN features : k \notin INTERNAL_KEYS }
Filtered(features) == [k \in NonInternal(features) |-> features[k]]

\* As CheckFps, but without the comparison of the two fps values.
CheckFps_Skipped ==
    /\ pc = "check_fps"
    /\ pc' = "check_schema"
    /\ UNCHANGED <<ds_src, ds_tgt, args, num, camera_keys, i, left, right, src_iter,
                   tgt_iter, range_it, status, message, reads_src, reads_tgt, compared,
                   run_no, first>>
    /\ UNCHANGED pvars

\* Lines 94-95.
CheckFps ==
    /\ pc = "check_fps"
    /\ IF ds_src.meta.fps # ds_tgt.meta.fps
       THEN Raise("AssertionError", [NoMessage EXCEPT !.what = "fps"])
       ELSE pc' = "check_schema" /\ UNCHANGED <<status, message>>
    /\ UNCHANGED <<ds_src, ds_tgt, args, num, camera_keys, i, left, right, src_iter,
                   tgt_iter, range_it, reads_src, reads_tgt, compared, run_no, first>>
    /\ UNCHANGED pvars

\* Lines 97-106.
CheckSchema ==
    /\ pc = "check_schema"
    /\ LET src_feats == Filtered(ds_src.meta.features)
           tgt_feats == Filtered(ds_tgt.meta.features)
       IN IF src_feats # tgt_feats
          THEN Raise("AssertionError",
                     [NoMessage EXCEPT !.what = "schema",
                        !.missing_left = DOMAIN tgt_feats \ DOMAIN src_feats,
                        !.missing_right = DOMAIN src_feats \ DOMAIN tgt_feats])
          ELSE pc' = "compute_num" /\ UNCHANGED <<status, message>>
    /\ UNCHANGED <<ds_src, ds_tgt, args, num, camera_keys, i, left, right, src_iter,
                   tgt_iter, range_it, reads_src, reads_tgt, compared, run_no, first>>
    /\ UNCHANGED pvars

use_streaming == ds_src.streaming \/ ds_tgt.streaming

\* Lines 108-120: num, camera_keys, the choice of the branch, the two
\* iterators and i = 0.
ComputeNum ==
    /\ pc = "compute_num"
    /\ num' = LET n == Min(ds_src.num_frames, ds_tgt.num_frames)
              IN IF args.max_frames # << >> THEN Min(n, args.max_frames[1]) ELSE n
    /\ camera_keys' = ds_src.meta.camera_keys
    /\ pc' = IF use_streaming THEN "stream_loop" ELSE "random_loop"
    /\ i' = IF use_streaming THEN 0 ELSE i
    /\ src_iter' = 0 /\ tgt_iter' = 0
    /\ UNCHANGED <<ds_src, ds_tgt, args, left, right, range_it, status, message,
                   reads_src, reads_tgt, compared, run_no, first>>
    /\ UNCHANGED pvars

\* The keys of a frame that the loop body compares, in iteration order:
\* camera keys are skipped unless --check-images.
CheckedKeys(frame) ==
    SelectSeq(KeyOrder, LAMBDA k : k \in DOMAIN frame
                                   /\ (args.check_images \/ k \notin camera_keys))

\* The per-frame check (lines 128-136, repeated at 145-154): the key sets,
\* then every compared key in order, ending at the first failure.
FrameCheck(l, r) ==
    IF DOMAIN l # DOMAIN r
    THEN [what |-> "keys", key |-> "",
          keys |-> (DOMAIN l \ DOMAIN r) \cup (DOMAIN r \ DOMAIN l)]
    ELSE LET ks == CheckedKeys(l)
             bad == { p \in 1..Len(ks) :
                        \/ item_raises(l[ks[p]], r[ks[p]])
                        \/ ~compare_values(l[ks[p]], r[ks[p]], args.tol.rtol, args.tol.atol) }
         IN IF bad = {}
            THEN [what |-> "ok", key |-> "", keys |-> {}]
            ELSE LET p == CHOOSE q \in bad : \A o \in bad : q <= o
                 IN IF item_raises(l[ks[p]], r[ks[p]])
                    THEN [what |-> "raise", key |-> ks[p], keys |-> {}]
                    ELSE [what |-> "mismatch", key |-> ks[p], keys |-> {}]

\* What the check of left/right at frame index idx makes of main().
CheckOutcome(res, idx, next_pc) ==
    IF res.what = "ok"
    THEN pc' = next_pc /\ UNCHANGED <<status, message>>
    ELSE IF res.what = "raise"
    THEN Raise("RuntimeError", [NoMessage EXCEPT !.what = "item", !.frame = idx, !.key = res.key])
    ELSE Raise("AssertionError",
               [NoMessage EXCEPT !.what = res.what, !.frame = idx, !.key = res.key,
                                 !.keys = res.keys])

\* next(it) raises StopIteration: a stream at its end, or the generator
\* (ds[i] for i in range(num)) after num frames.
Exhausted(ds, pos) == IF ds.streaming THEN pos >= Len(ds.frames) ELSE pos >= num

Fetched(ds, idx) == <<[idx |-> idx, frame |-> ds.frames[idx + 1]]>>

\* As StreamNext, but a StopIteration of the target goes round the loop
\* again instead of leaving it.
StreamNext_ContinueOnStop ==
    /\ pc = "stream_loop"
    /\ IF i >= num \/ Exhausted(ds_src, src_iter)
       THEN /\ pc' = "stream_done"
            /\ UNCHANGED <<left, right, src_iter, tgt_iter, reads_src, reads_tgt>>
       ELSE /\ left' = Fetched(ds_src, src_iter)
            /\ src_iter' = src_iter + 1
            /\ reads_src' = Append(reads_src, src_iter)
            /\ IF Exhausted(ds_tgt, tgt_iter)
               THEN /\ pc' = "stream_loop"
                    /\ UNCHANGED <<right, tgt_iter, reads_tgt>>
               ELSE /\ right' = Fetched(ds_tgt, tgt_iter)
                    /\ tgt_iter' = tgt_iter + 1
                    /\ reads_tgt' = Append(reads_tgt, tgt_iter)
                    /\ pc' = "stream_compare"
    /\ UNCHANGED <<ds_src, ds_tgt, args, num, camera_keys, i, range_it, status, message,
                   compared, run_no, first>>
    /\ UNCHANGED pvars

\* Lines 121-126: the loop test and the two next() calls.
StreamNext ==
    /\ pc = "stream_loop"
    /\ IF i >= num \/ Exhausted(ds_src, src_iter)
       THEN /\ pc' = "stream_done"
            /\ UNCHANGED <<left, right, src_iter, tgt_iter, reads_src, reads_tgt>>
       ELSE /\ left' = Fetched(ds_src, src_iter)
            /\ src_iter' = src_iter + 1
            /\ reads_src' = Append(reads_src, src_iter)
            /\ IF Exhausted(ds_tgt, tgt_iter)
               THEN /\ pc' = "stream_done"
                    /\ UNCHANGED <<right, tgt_iter, reads_tgt>>
               ELSE /\ right' = Fetched(ds_tgt, tgt_iter)
                    /\ tgt_iter' = tgt_iter + 1
                    /\ reads_tgt' = Append(reads_tgt, tgt_iter)
                    /\ pc' = "stream_compare"
    /\ UNCHANGED <<ds_src, ds_tgt, args, num, camera_keys, i, range_it, status, message,
                   compared, run_no, first>>
    /\ UNCHANGED pvars

\* Lines 128-137.
StreamCompare ==
    /\ pc = "stream_compare"
    /\ compared' = Append(compared, <<left[1].idx, right[1].idx>>)
    /\ LET res == FrameCheck(left[1].frame, right[1].frame)
       IN /\ CheckOutcome(res, i, "stream_loop")
          /\ i' = IF res.what = "ok" THEN i + 1 ELSE i
    /\ UNCHANGED <<ds_src, ds_tgt, args, num, camera_keys, left, right, src_iter, tgt_iter,
                   range_it, reads_src, reads_tgt, run_no, first>>
    /\ UNCHANGED pvars

\* As StreamSuccess, but reporting num as line 156 does.
StreamSuccess_ReportsNum ==
    /\ pc = "stream_done"
    /\ status' = "success"
    /\ message' = [NoMessage EXCEPT !.what = "success", !.count = num]
    /\ pc' = "returned"
    /\ UNCHANGED <<ds_src, ds_tgt, args, num, camera_keys, i, left, right, src_iter,
                   tgt_iter, range_it, reads_src, reads_tgt, compared, run_no, first>>
    /\ UNCHANGED pvars

\* Lines 138-139.
StreamSuccess ==
    /\ pc = "stream_done"
    /\ status' = "success"
    /\ message' = [NoMessage EXCEPT !.what = "success", !.count = i]
    /\ pc' = "returned"
    /\ UNCHANGED <<ds_src, ds_tgt, args, num, camera_keys, i, left, right, src_iter,
                   tgt_iter, range_it, reads_src, reads_tgt, compared, run_no, first>>
    /\ UNCHANGED pvars

\* Lines 141-143: one turn of the for loop, or its end.
RandomFetch ==
    /\ pc = "random_loop"
    /\ IF range_it < num
       THEN /\ i' = range_it
            /\ range_it' = range_it + 1
            /\ left' = Fetched(ds_src, range_it)
            /\ right' = Fetched(ds_tgt, range_it)
            /\ reads_src' = Append(reads_src, range_it)
            /\ reads_tgt' = Append(reads_tgt, range_it)
            /\ pc' = "random_loop"
       ELSE /\ pc' = "random_compare"
            /\ UNCHANGED <<i, range_it, left, right, reads_src, reads_tgt>>
    /\ UNCHANGED <<ds_src, ds_tgt, args, num, camera_keys, src_iter, tgt_iter, status,
                   message, compared, run_no, first>>
    /\ UNCHANGED pvars

\* Lines 145-154, after the for loop: left and right are whatever the last
\* turn left in them, and unbound when the loop never ran.
RandomCompare ==
    /\ pc = "random_compare"
    /\ IF left = << >>
       THEN /\ Raise("UnboundLocalError", [NoMessage EXCEPT !.what = "left"])
            /\ UNCHANGED compared
       ELSE /\ compared' = Append(compared, <<left[1].idx, right[1].idx>>)
            /\ CheckOutcome(FrameCheck(left[1].frame, right[1].frame), i, "random_done")
    /\ UNCHANGED <<ds_src, ds_tgt, args, num, camera_keys, i, left, right, src_iter,
                   tgt_iter, range_it, reads_src, reads_tgt, run_no, first>>
    /\ UNCHANGED pvars

\* Line 156.
RandomSuccess ==
    /\ pc = "random_done"
    /\ status' = "success"
    /\ message' = [NoMessage EXCEPT !.what = "success", !.count = num]
    /\ pc' = "returned"
    /\ UNCHANGED <<ds_src, ds_tgt, args, num, camera_keys, i, left, right, src_iter,
                   tgt_iter, range_it, reads_src, reads_tgt, compared, run_no, first>>
    /\ UNCHANGED pvars

ValidatorNext ==
    \/ CheckFps
    \/ CheckSchema
    \/ ComputeNum
    \/ StreamNext
    \/ StreamCompare
    \/ StreamSuccess
    \/ RandomFetch
    \/ RandomCompare
    \/ RandomSuccess


(***************************************************************************)
(* A second invocation of main() on the same two datasets                  *)
(***************************************************************************)
FirstRun(kind) ==
    [status |-> status, message |-> message, streaming |-> use_streaming,
     num |-> num, rerun |-> kind]

RunStartNext ==
    /\ pc' = "check_fps"
    /\ num' = 0 /\ camera_keys' = {}
    /\ i' = 0 /\ left' = << >> /\ right' = << >>
    /\ src_iter' = 0 /\ tgt_iter' = 0 /\ range_it' = 0
    /\ status' = "running" /\ message' = NoMessage
    /\ reads_src' = << >> /\ reads_tgt' = << >> /\ compared' = << >>

\* The same frame sequences opened through the other loader (lines 66-92):
\* with local roots instead of repo ids, or the reverse.
RerunOtherMode ==
    /\ run_no = 1 /\ status # "running"
    /\ \E s \in BOOLEAN, t \in BOOLEAN :
        /\ (s \/ t) # use_streaming
        /\ ~s => ds_src.num_frames = Len(ds_src.frames)
        /\ ~t => ds_tgt.num_frames = Len(ds_tgt.frames)
        /\ ds_src' = [ds_src EXCEPT !.streaming = s]
        /\ ds_tgt' = [ds_tgt EXCEPT !.streaming = t]
    /\ first' = FirstRun("mode")
    /\ run_no' = 2
    /\ RunStartNext
    /\ UNCHANGED args
    /\ UNCHANGED pvars

\* The source and target arguments exchanged, everything else the same.
RerunSwapped ==
    /\ run_no = 1 /\ status # "running"
    /\ ds_src' = ds_tgt
    /\ ds_tgt' = ds_src
    /\ first' = FirstRun("swap")
    /\ run_no' = 2
    /\ RunStartNext
    /\ UNCHANGED args
    /\ UNCHANGED pvars

(***************************************************************************)
(* port_v21_shards.py and aggregate_v21_shards.py                          *)
(***************************************************************************)
\* Most workers of one port job, and most episodes of a source dataset.
MaxWorkers == 3
MaxEpisodes == 10

\* Strings are sequences of characters.
Digits == <<"0", "1", "2", "3", "4", "5", "6", "7", "8", "9">>

\* str(n) of a non-negative int, as an f-string formats it.
RECURSIVE Str(_)
Str(n) == IF n < 10 THEN <<Digits[n + 1]>>
          ELSE Str(n \div 10) \o <<Digits[(n % 10) + 1]>>

RepoA == <<"a">>
RepoB == <<"b">>
RepoShardLike == <<"a", "_", "w", "o", "r", "l", "d", "_", "2", "_", "r", "a", "n", "k", "_", "1">>
RepoIds == {RepoA, RepoB, RepoShardLike}

\* self.out_repo_prefix = out_repo_prefix or repo_id
OutRepoPrefix == IF out_repo_prefix = << >> THEN repo_id ELSE out_repo_prefix

\* f"{self.out_repo_prefix}_world_{world_size}_rank_{rank}"
PortShardRepoId(rank, world_size) ==
    OutRepoPrefix \o <<"_", "w", "o", "r", "l", "d", "_">> \o Str(world_size)
                  \o <<"_", "r", "a", "n", "k", "_">> \o Str(rank)

\* f"{args.base_repo_id}_world_{args.workers}_rank_{r}"
AggrShardRepoId(r) ==
    base_repo_id \o <<"_", "w", "o", "r", "l", "d", "_">> \o Str(aggr_workers)
                 \o <<"_", "r", "a", "n", "k", "_">> \o Str(r)

\* As ConvertCall, but shard_index left at convert_dataset's first shard.
ConvertCall_NoShardIndex(rank, world_size) ==
    [repo_id |-> repo_id, num_shards |-> world_size, shard_index |-> 0,
     out_repo_id |-> PortShardRepoId(rank, world_size)]

\* The arguments PortV21Shards.run hands to convert_dataset.
ConvertCall(rank, world_size) ==
    [repo_id |-> repo_id, num_shards |-> world_size, shard_index |-> rank,
     out_repo_id |-> PortShardRepoId(rank, world_size)]

\* convert_dataset's partition of the source episodes: base = total // W,
\* extra = total % W, shard i holds base + 1 episodes if i < extra, else
\* base, at the offset the prefix sum gives.
ShardCount(total, num_shards, shard_index) ==
    (total \div num_shards) + (IF shard_index < total % num_shards THEN 1 ELSE 0)

RECURSIVE ShardOffset(_, _, _)
ShardOffset(total, num_shards, shard_index) ==
    IF shard_index = 0 THEN 0
    ELSE ShardOffset(total, num_shards, shard_index - 1)
         + ShardCount(total, num_shards, shard_index - 1)

ShardEpisodes(total, num_shards, shard_index) ==
    LET start == ShardOffset(total, num_shards, shard_index)
    IN start .. (start + ShardCount(total, num_shards, shard_index) - 1)

PartitionError(num_shards, shard_index) ==
    num_shards <= 0 \/ shard_index < 0 \/ shard_index >= num_shards

Ranks == 0 .. (workers - 1)

PortInit ==
    /\ repo_id \in RepoIds
    /\ out_repo_prefix \in {<< >>, RepoA}
    /\ workers \in 1..MaxWorkers
    /\ total_episodes \in 0..MaxEpisodes
    /\ task = [r \in Ranks |-> "idle"]
    /\ call = [r \in Ranks |-> << >>]
    /\ outputs = {}
    /\ base_repo_id \in RepoIds
    /\ aggr_workers \in 1..MaxWorkers
    /\ aggr_pc = "main"
    /\ shard_repo_ids = << >>
    /\ aggregated = << >>

\* PortV21Shards.run up to its call of convert_dataset: the executor gives
\* task `rank` of `workers` tasks world_size = workers.
PortRunStart(rank) ==
    /\ task[rank] = "idle"
    /\ call' = [call EXCEPT ![rank] = <<ConvertCall(rank, workers)>>]
    /\ task' = [task EXCEPT ![rank] = "converting"]
    /\ UNCHANGED <<repo_id, out_repo_prefix, workers, total_episodes, outputs,
                   base_repo_id, aggr_workers, aggr_pc, shard_repo_ids, aggregated>>
    /\ UNCHANGED vvars

\* convert_dataset returns: the shard dataset is written under out_repo_id.
PortRunFinish(rank) ==
    /\ task[rank] = "converting"
    /\ LET c == call[rank][1]
       IN IF PartitionError(c.num_shards, c.shard_index)
          THEN /\ task' = [task EXCEPT ![rank] = "failed"]
               /\ UNCHANGED outputs
          ELSE /\ task' = [task EXCEPT ![rank] = "done"]
               /\ outputs' = outputs \cup
                    { [out_repo_id |-> c.out_repo_id, rank |-> rank,
                       episodes |-> ShardEpisodes(total_episodes, c.num_shards, c.shard_index)] }
    /\ UNCHANGED <<repo_id, out_repo_prefix, workers, total_episodes, call,
                   base_repo_id, aggr_workers, aggr_pc, shard_repo_ids, aggregated>>
    /\ UNCHANGED vvars

\* aggregate_v21_shards.main: the shard list.
AggregateMain ==
    /\ aggr_pc = "main"
    /\ shard_repo_ids' = [k \in 1..aggr_workers |-> AggrShardRepoId(k - 1)]
    /\ aggr_pc' = "run"
    /\ UNCHANGED <<repo_id, out_repo_prefix, workers, total_episodes, task, call, outputs,
                   base_repo_id, aggr_workers, aggregated>>
    /\ UNCHANGED vvars

\* AggregateV21Shards.run of the single task, rank 0.
AggregateRun ==
    /\ aggr_pc = "run"
    /\ aggregated' = shard_repo_ids
    /\ aggr_pc' = "done"
    /\ UNCHANGED <<repo_id, out_repo_prefix, workers, total_episodes, task, call, outputs,
                   base_repo_id, aggr_workers, shard_repo_ids>>
    /\ UNCHANGED vvars

(***************************************************************************)
(* Specifications                                                          *)
(***************************************************************************)
\* The port variables while only the validator runs.
PortIdle ==
    /\ repo_id = RepoA /\ out_repo_prefix = << >>
    /\ workers = 1 /\ total_episodes = 0
    /\ task = [r \in Ranks |-> "idle"]
    /\ call = [r \in Ranks |-> << >>]
    /\ outputs = {}
    /\ base_repo_id = RepoA /\ aggr_workers = 1
    /\ aggr_pc = "main" /\ shard_repo_ids = << >> /\ aggregated = << >>

\* The validator variables while only the port and aggregate commands run.
ValidatorIdle ==
    /\ ds_src = [streaming |-> FALSE, meta |-> MetaRef, num_frames |-> 0, frames |-> << >>]
    /\ ds_tgt = [streaming |-> FALSE, meta |-> MetaRef, num_frames |-> 0, frames |-> << >>]
    /\ args = [max_frames |-> << >>, check_images |-> FALSE,
               tol |-> [rtol |-> <<0, 1>>, atol |-> 0]]
    /\ RunStart
    /\ run_no = 1 /\ first = NoFirst

Init == ValidatorInit /\ PortIdle
Next == ValidatorNext

\* One run of validate_v21_conversion.py.
Spec == Init /\ [][Next]_vars

RerunNext ==
    \/ ValidatorNext
    \/ RerunOtherMode
    \/ RerunSwapped

\* Two runs of validate_v21_conversion.py on the same datasets.
SpecRerun == Init /\ [][RerunNext]_vars

PortNext ==
    \/ \E rank \in Ranks : PortRunStart(rank)
    \/ \E rank \in Ranks : PortRunFinish(rank)
    \/ AggregateMain
    \/ AggregateRun

\* One port job of `workers` parallel tasks, and one aggregate command.
InitPort == ValidatorIdle /\ PortInit
SpecPort == InitPort /\ [][PortNext]_vars

(***************************************************************************)
(* Properties                                                              *)
(***************************************************************************)
Terminated == status # "running"

FpsEqual == ds_src.meta.fps = ds_tgt.meta.fps

SchemaKeys(ds) == DOMAIN ds.meta.features \ INTERNAL_KEYS

SchemaEqual ==
    /\ SchemaKeys(ds_src) = SchemaKeys(ds_tgt)
    /\ \A k \in SchemaKeys(ds_src) : ds_src.meta.features[k] = ds_tgt.meta.features[k]

PreconditionsHold == FpsEqual /\ SchemaEqual

\* n: min of the two frame counts, capped by max_frames.
ComparisonLength ==
    LET n == Min(ds_src.num_frames, ds_tgt.num_frames)
    IN IF args.max_frames = << >> THEN n ELSE Min(n, args.max_frames[1])

BothHold(n) == Len(ds_src.frames) >= n /\ Len(ds_tgt.frames) >= n

KeysEqualAt(j) == DOMAIN ds_src.frames[j + 1] = DOMAIN ds_tgt.frames[j + 1]

\* The compared keys of frame pair j whose values mismatch.
MismatchKeys(j) ==
    { k \in DOMAIN ds_src.frames[j + 1] \cap DOMAIN ds_tgt.frames[j + 1] :
        /\ args.check_images \/ k \notin ds_src.meta.camera_keys
        /\ ~compare_values(ds_src.frames[j + 1][k], ds_tgt.frames[j + 1][k],
                           args.tol.rtol, args.tol.atol) }

FramesMatch(j) == KeysEqualAt(j) /\ MismatchKeys(j) = {}

NoFrameRead ==
    /\ reads_src = << >> /\ reads_tgt = << >> /\ compared = << >>
    /\ left = << >> /\ right = << >>
    /\ src_iter = 0 /\ tgt_iter = 0 /\ range_it = 0

\* C1: in either access mode, when frame pair j < n is the first with a value
\* mismatch on a compared key (the key sets of pairs 0..j being equal),
\* validate fails at j, naming j and a mismatching key, and no frame with an
\* index greater than j is compared.
C1_FailsAtFirstMismatch ==
    (Terminated /\ PreconditionsHold /\ BothHold(ComparisonLength)) =>
        \A j \in 0 .. (ComparisonLength - 1) :
            ( /\ MismatchKeys(j) # {}
              /\ \A m \in 0 .. j : KeysEqualAt(m)
              /\ \A m \in 0 .. (j - 1) : MismatchKeys(m) = {} )
            => /\ status = "AssertionError"
               /\ message.what = "mismatch"
               /\ message.frame = j
               /\ message.key \in MismatchKeys(j)
               /\ \A c \in 1 .. Len(compared) : compared[c][1] <= j /\ compared[c][2] <= j

\* C2: the random-access run and the streaming run of the same two frame
\* sequences (each at least n frames long), with the same arguments, end
\* with the same outcome: the same count on success, the same frame index
\* and kind of mismatch on failure.
C2_ModesAgree ==
    (run_no = 2 /\ first.rerun = "mode" /\ Terminated /\ BothHold(ComparisonLength)) =>
        /\ first.status = status
        /\ first.message.what = message.what
        /\ first.message.frame = message.frame
        /\ first.message.count = message.count

\* C3: the preconditions are checked before any frame is fetched or compared:
\* when the fps differ, or the schemas differ after removing the internal
\* keys, validate fails with that error, no frame having been read from either
\* dataset, and the schema failure lists the features present on one side only.
C3_PreconditionsFirst ==
    /\ ~PreconditionsHold => NoFrameRead
    /\ (~FpsEqual /\ pc # "check_fps")
         => status = "AssertionError" /\ message.what = "fps"
    /\ (FpsEqual /\ ~SchemaEqual /\ pc \notin {"check_fps", "check_schema"})
         => /\ status = "AssertionError" /\ message.what = "schema"
            /\ message.missing_left = SchemaKeys(ds_tgt) \ SchemaKeys(ds_src)
            /\ message.missing_right = SchemaKeys(ds_src) \ SchemaKeys(ds_tgt)

\* Scenario C: the target lacks the feature cam, and frames were there to read.
C3_Witness ==
    /\ status = "AssertionError" /\ message.what = "schema"
    /\ message.missing_right = {"cam"}
    /\ ds_src.frames # << >> /\ ds_tgt.frames # << >>

\* Frame pairs a streaming run can compare: min(n, source frames, target frames).
Available == Min(ComparisonLength, Min(Len(ds_src.frames), Len(ds_tgt.frames)))

\* C4: a streaming run in which no compared frame pair mismatches ends with
\* success, also when a cursor is exhausted before n steps, and the reported
\* count is the number of frame pairs compared, min(n, frames available from
\* the source, frames available from the target).
C4_StreamingEarlyStop ==
    (use_streaming /\ Terminated /\ PreconditionsHold
       /\ \A j \in 0 .. (Available - 1) : FramesMatch(j))
    => /\ status = "success"
       /\ message.count = Available
       /\ message.count = Len(compared)

\* Scenario D: a cursor ended before n steps, after at least one comparison.
C4_Witness ==
    /\ use_streaming /\ status = "success"
    /\ message.count >= 1 /\ message.count < ComparisonLength

\* C5: whenever validate ends with success, the number of frames it reports is
\* the number of frame pairs whose keys and values it compared.
C5_ReportedEqualsCompared ==
    status = "success" => message.count = Len(compared)

\* C6: validate(A, B) succeeds if and only if validate(B, A) succeeds, with
\* the same max_frames, check_images, rtol and atol.
C6_Symmetric ==
    (run_no = 2 /\ first.rerun = "swap" /\ Terminated) =>
        ((first.status = "success") <=> (status = "success"))

\* C7: the episode ranges of the shards written by ranks 0..workers-1 are
\* contiguous ranges in rank order, pairwise disjoint, of base + 1 episodes for
\* rank < total % workers and base episodes otherwise, and once every rank is
\* done their union is 0..total-1.
C7_Partition ==
    /\ \A o \in outputs :
        /\ \A a \in o.episodes, b \in o.episodes : \A c \in a..b : c \in o.episodes
        /\ o.episodes \subseteq 0 .. (total_episodes - 1)
        /\ Cardinality(o.episodes) =
             (total_episodes \div workers)
             + (IF o.rank < total_episodes % workers THEN 1 ELSE 0)
    /\ \A o1 \in outputs, o2 \in outputs :
        o1.rank < o2.rank =>
            \A a \in o1.episodes, b \in o2.episodes : a < b
    /\ (\A r \in Ranks : task[r] = "done") =>
        /\ Cardinality(outputs) = workers
        /\ UNION { o.episodes : o \in outputs } = 0 .. (total_episodes - 1)

\* Scenario A: 10 episodes over 3 workers, all done.
C7_Witness ==
    /\ workers = 3 /\ total_episodes = 10
    /\ \A r \in Ranks : task[r] = "done"
    /\ { <<o.rank, Cardinality(o.episodes)>> : o \in outputs } = {<<0, 4>>, <<1, 3>>, <<2, 3>>}

AllCalled == \A r \in Ranks : call[r] # << >>

\* C8, first part: the ranks of one job write to pairwise distinct output ids.
PortOutputsDistinct ==
    \A r1 \in Ranks, r2 \in Ranks :
        (r1 # r2 /\ call[r1] # << >> /\ call[r2] # << >>)
            => call[r1][1].out_repo_id # call[r2][1].out_repo_id

\* C8, second part: no rank writes to the source id.
PortOutputsNotSource ==
    \A r \in Ranks : call[r] # << >> => call[r][1].out_repo_id # repo_id

\* C8, third part: the aggregate command's list, derived from the same base id
\* and worker count, is the ids the ranks wrote, in rank order.
AggregateListsShards ==
    (aggr_pc # "main" /\ base_repo_id = OutRepoPrefix /\ aggr_workers = workers /\ AllCalled)
        => shard_repo_ids = [k \in 1..workers |-> call[k - 1][1].out_repo_id]

\* C8: the workers of one job write to pairwise distinct output ids, none the
\* source id, and the aggregate command's list for the same base id and worker
\* count is exactly the ids written by ranks 0..W-1 in rank order.
C8_DistinctOutputs ==
    /\ PortOutputsDistinct
    /\ PortOutputsNotSource
    /\ AggregateListsShards

\* C9: in streaming mode each cursor yields its frames 0, 1, 2, ... once each,
\* the two cursors advance in lockstep, the k-th comparison is of the k-th
\* frame pulled from each side, and at most n frame pairs are compared.
C9_Lockstep ==
    use_streaming =>
        /\ \A k \in 1 .. Len(reads_src) : reads_src[k] = k - 1
        /\ \A k \in 1 .. Len(reads_tgt) : reads_tgt[k] = k - 1
        /\ Len(reads_tgt) <= Len(reads_src) /\ Len(reads_src) <= Len(reads_tgt) + 1
        /\ Len(compared) <= Len(reads_tgt) /\ Len(reads_tgt) <= Len(compared) + 1
        /\ \A k \in 1 .. Len(compared) : compared[k] = <<reads_src[k], reads_tgt[k]>>
        /\ Len(compared) <= ComparisonLength /\ Len(reads_src) <= ComparisonLength
        /\ pc = "stream_compare" =>
             /\ left[1].frame = ds_src.frames[Len(reads_src)]
             /\ right[1].frame = ds_tgt.frames[Len(reads_tgt)]

\* Two comparisons done in streaming mode, one side a stream and the other not.
C9_Witness ==
    /\ use_streaming /\ ds_src.streaming # ds_tgt.streaming
    /\ Len(compared) = 2

\* C10: when n = 0 and the fps and schema preconditions hold, validate ends
\* with success reporting 0 frames, in either access mode.
C10_EmptyComparisonSucceeds ==
    (Terminated /\ PreconditionsHold /\ ComparisonLength = 0) =>
        (status = "success" /\ message.count = 0)
====
